---- MODULE Spec2Model ----
(***************************************************************************)
(* Model of the speaking-opportunity store: the ingestion run of           *)
(* src/scrape.py (one transaction of UPSERT_SQL statements against the     *)
(* opportunities table of SCHEMA_SQL) and the query of src/app/main.py     *)
(* (fetch_opportunities / api_opportunities).                              *)
(*                                                                         *)
(* Encoding.  A text value is a sequence of one-character strings.  A      *)
(* nullable column value is an option: <<>> is SQL NULL / Python None and  *)
(* <<v>> is the value v.  Dates are day numbers.                           *)
(***************************************************************************)
EXTENDS Integers, Sequences, FiniteSets, TLC

VARIABLES
    backend,   \* which database DATABASE_URL selects: "sqlite" or "postgresql"
    clock,     \* the wall-clock date, as date.today() would return it now
    db,        \* the committed rows of table opportunities
    seq,       \* last value drawn from the SERIAL sequence of column id
    pc,        \* per ingestion run: position in scrape.main()
    today,     \* per ingestion run: the local variable today
    writes,    \* per ingestion run: rows written by the open transaction
    upserted,  \* history: the urls of the statements committed so far
    resp       \* the last answer of api_opportunities, with what it was asked

vars == <<backend, clock, db, seq, pc, today, writes, upserted, resp>>

\* ---------------------------------------------------------------- bounds
MaxBatch == 2      \* candidates per ingestion run
MaxDate == 2       \* the clock runs over days 1..MaxDate
MaxSeq == 3        \* cap on values drawn from the id sequence
MaxLimit == 2      \* limits asked for lie in -1..MaxLimit

Runs == {"r1", "r2"}

\* ---------------------------------------------------------------- values
Null == <<>>
Some(v) == <<v>>
IsNull(o) == o = <<>>
Val(o) == o[1]

\* ---------------------------------------------------------------- candidates
\* A candidate is the parameter dict handed to UPSERT_SQL, as the items of
\* sample are; last_seen is bound from the run's today (see Bind).
Cand(t, o, u, l, r, g, d, e, s) ==
    [title |-> t, organizer |-> o, url |-> u, location |-> l, is_remote |-> r,
     topic_tags |-> g, cfp_deadline |-> d, event_date |-> e, source |-> s]

Pool ==
    { Cand(Some(<<"A", "b">>), Null, Some(<<"x">>), Some(<<"L">>), Some(FALSE),
           Some(<<"a", "I">>), Some(2), Some(2), Some(<<"s">>)),
      Cand(Some(<<"b", "_">>), Some(<<"O">>), Some(<<"x">>), Null, Some(TRUE),
           Null, Null, Null, Null),
      Cand(Some(<<"B">>), Some(<<"a">>), Some(<<"y">>), Null, Null,
           Some(<<"%">>), Some(1), Null, Some(<<"s">>)),
      Cand(Some(<<"A">>), Null, Some(<<>>), Null, Some(FALSE),
           Null, Null, Null, Null),
      Cand(Null, Null, Some(<<"y">>), Null, Some(FALSE),
           Null, Some(2), Null, Null) }

\* "last_seen": today  -- the dict of one sample item, completed
Bind(c, day) ==
    [title |-> c.title, organizer |-> c.organizer, url |-> c.url,
     location |-> c.location, is_remote |-> c.is_remote,
     topic_tags |-> c.topic_tags, cfp_deadline |-> c.cfp_deadline,
     event_date |-> c.event_date, source |-> c.source, last_seen |-> Some(day)]

\* ---------------------------------------------------------------- schema
\* title TEXT NOT NULL, url TEXT UNIQUE NOT NULL, last_seen DATE NOT NULL:
\* the only checks the statement makes; an empty string is not NULL.
NotNullOk(p) == ~IsNull(p.title) /\ ~IsNull(p.url) /\ ~IsNull(p.last_seen)

\* id SERIAL PRIMARY KEY: PostgreSQL draws nextval for every INSERT attempt;
\* SQLite knows no SERIAL type, the column is an ordinary one and stays NULL.
NextSeq(b, s) == IF b = "postgresql" THEN s + 1 ELSE s
NewId(b, s) == IF b = "postgresql" THEN Some(s + 1) ELSE Null

\* Mutant: no unique index on url, so no insert ever conflicts.
ConflictsNone(t, u) == {}

\* The rows of table t that conflict with url u (UNIQUE url).
Conflicts(t, u) == {row \in t : row.url = u}

\* Mutant: a field-level merge, organizer = COALESCE(EXCLUDED.organizer,
\* organizer), which keeps the old value where the new one is NULL.
DoUpdateMerge(old, p) ==
    [id |-> old.id, title |-> p.title,
     organizer |-> IF IsNull(p.organizer) THEN old.organizer ELSE p.organizer,
     url |-> old.url, location |-> p.location, is_remote |-> p.is_remote,
     topic_tags |-> p.topic_tags, cfp_deadline |-> p.cfp_deadline,
     event_date |-> p.event_date, source |-> p.source, last_seen |-> p.last_seen]

\* ON CONFLICT (url) DO UPDATE SET ... = EXCLUDED. ...: every column but id
\* and url is taken from the proposed row.
DoUpdate(old, p) ==
    [id |-> old.id, title |-> p.title, organizer |-> p.organizer, url |-> old.url,
     location |-> p.location, is_remote |-> p.is_remote,
     topic_tags |-> p.topic_tags, cfp_deadline |-> p.cfp_deadline,
     event_date |-> p.event_date, source |-> p.source, last_seen |-> p.last_seen]

NewRow(p, newid) ==
    [id |-> newid, title |-> p.title, organizer |-> p.organizer, url |-> p.url,
     location |-> p.location, is_remote |-> p.is_remote,
     topic_tags |-> p.topic_tags, cfp_deadline |-> p.cfp_deadline,
     event_date |-> p.event_date, source |-> p.source, last_seen |-> p.last_seen]

\* Mutant: an update that is not atomic and stops after the first column.
UPSERT_SQL_torn(t, p, newid) ==
    IF {row \in t : row.url = p.url} = {}
    THEN t \cup {NewRow(p, newid)}
    ELSE {IF row.url = p.url THEN [row EXCEPT !.title = p.title] ELSE row : row \in t}

\* UPSERT_SQL on table t with parameters p; newid is the id default drawn.
UPSERT_SQL(t, p, newid) ==
    IF Conflicts(t, p.url) = {}
    THEN t \cup {NewRow(p, newid)}
    ELSE {IF row \in Conflicts(t, p.url) THEN DoUpdate(row, p) ELSE row : row \in t}

\* The statements of one transaction applied in order; w[k] = <<params, newid>>.
RECURSIVE ApplyWrites(_, _)
ApplyWrites(t, w) ==
    IF w = <<>> THEN t
    ELSE ApplyWrites(UPSERT_SQL(t, w[1][1], w[1][2]), Tail(w))

\* What run r's own connection sees: committed rows plus its own writes.
TxView(r) == ApplyWrites(db, writes[r])

\* ---------------------------------------------------------------- locking
WrittenUrls(r) == {writes[r][k][1].url : k \in 1..Len(writes[r])}

\* Whether run r must wait before writing url u.  PostgreSQL: another open
\* transaction has written the same url (row lock / unique-index wait).
\* SQLite: another connection holds the database write lock.
Blocked(r, u) ==
    \E o \in Runs \ {r} :
        IF backend = "postgresql" THEN u \in WrittenUrls(o) ELSE writes[o] # <<>>

\* ---------------------------------------------------------------- ingestion
NoResp == [kind |-> "none"]

Init ==
    /\ backend \in {"sqlite", "postgresql"}
    /\ clock = 1
    /\ db = {}
    /\ seq = 0
    /\ pc = [r \in Runs |-> "idle"]
    /\ today = [r \in Runs |-> 0]
    /\ writes = [r \in Runs |-> <<>>]
    /\ upserted = {}
    /\ resp = NoResp

\* The calendar date advances.
Tick ==
    /\ clock < MaxDate
    /\ clock' = clock + 1
    /\ UNCHANGED <<backend, db, seq, pc, today, writes, upserted, resp>>

\* main(): today = date.today(); ... with engine.begin() as conn:
\*         conn.execute(text(SCHEMA_SQL))      (the table exists: no effect)
Begin(r) ==
    /\ pc[r] = "idle"
    /\ today' = [today EXCEPT ![r] = clock]
    /\ pc' = [pc EXCEPT ![r] = "open"]
    /\ UNCHANGED <<backend, clock, db, seq, writes, upserted, resp>>

\* conn.execute(text(UPSERT_SQL), item) -- the statement succeeds
Upsert(r, c) ==
    /\ pc[r] = "open"
    /\ Len(writes[r]) < MaxBatch
    /\ NotNullOk(Bind(c, today[r]))
    /\ ~Blocked(r, c.url)
    /\ seq < MaxSeq
    /\ writes' = [writes EXCEPT ![r] =
                     Append(@, <<Bind(c, today[r]), NewId(backend, seq)>>)]
    /\ seq' = NextSeq(backend, seq)
    /\ UNCHANGED <<backend, clock, db, pc, today, upserted, resp>>

\* conn.execute(text(UPSERT_SQL), item) -- the statement raises IntegrityError
\* (NOT NULL); the exception leaves the with block, which rolls back every
\* statement of the run, and main() ends with the exception.
UpsertFails(r, c) ==
    /\ pc[r] = "open"
    /\ Len(writes[r]) < MaxBatch
    /\ ~NotNullOk(Bind(c, today[r]))
    /\ seq < MaxSeq
    /\ writes' = [writes EXCEPT ![r] = <<>>]
    /\ pc' = [pc EXCEPT ![r] = "idle"]
    /\ today' = [today EXCEPT ![r] = 0]
    /\ seq' = NextSeq(backend, seq)
    /\ UNCHANGED <<backend, clock, db, upserted, resp>>

\* A statement that waits for another transaction is given up by the
\* database (deadlock detected, lock timeout, "database is locked"): the
\* exception leaves the with block, which rolls back.
LockAbort(r) ==
    /\ pc[r] = "open"
    /\ \E c \in Pool : Blocked(r, c.url)
    /\ writes' = [writes EXCEPT ![r] = <<>>]
    /\ pc' = [pc EXCEPT ![r] = "idle"]
    /\ today' = [today EXCEPT ![r] = 0]
    /\ UNCHANGED <<backend, clock, db, seq, upserted, resp>>

\* leaving "with engine.begin()" normally: COMMIT, then the print
Commit(r) ==
    /\ pc[r] = "open"
    /\ db' = ApplyWrites(db, writes[r])
    /\ upserted' = upserted \cup WrittenUrls(r)
    /\ writes' = [writes EXCEPT ![r] = <<>>]
    /\ pc' = [pc EXCEPT ![r] = "idle"]
    /\ today' = [today EXCEPT ![r] = 0]
    /\ UNCHANGED <<backend, clock, seq, resp>>

\* ---------------------------------------------------------------- one run, whole
\* The statements scrape.main() executes for a batch, until the first that
\* raises: <<params, newid>> each, the ids drawn from sequence value s on.
RECURSIVE BatchWrites(_, _, _, _)
BatchWrites(batch, day, b, s) ==
    IF batch = <<>> \/ ~NotNullOk(Bind(batch[1], day)) THEN <<>>
    ELSE <<<<Bind(batch[1], day), NewId(b, s)>>>>
             \o BatchWrites(Tail(batch), day, b, NextSeq(b, s))

BatchOk(batch) == \A k \in 1..Len(batch) : ~IsNull(batch[k].title) /\ ~IsNull(batch[k].url)

\* The number of statements executed: all, or up to and including the one
\* that raises.
Executed(batch, day, b) ==
    IF BatchOk(batch) THEN Len(batch) ELSE Len(BatchWrites(batch, day, b, 0)) + 1

RECURSIVE NextSeqN(_, _, _)
NextSeqN(b, s, n) == IF n = 0 THEN s ELSE NextSeqN(b, NextSeq(b, s), n - 1)

Batches == UNION {[1..n -> Pool] : n \in 0..MaxBatch}

\* scrape.main() from its first line to its last with no other run in
\* between: the transaction commits every statement or, when one raises,
\* none.
main(batch) ==
    /\ \A r \in Runs : pc[r] = "idle"
    /\ resp = NoResp
    /\ NextSeqN(backend, seq, Executed(batch, clock, backend)) <= MaxSeq
    /\ db' = IF BatchOk(batch)
             THEN ApplyWrites(db, BatchWrites(batch, clock, backend, seq))
             ELSE db
    /\ upserted' = IF BatchOk(batch)
                   THEN upserted \cup {batch[k].url : k \in 1..Len(batch)}
                   ELSE upserted
    /\ seq' = NextSeqN(backend, seq, Executed(batch, clock, backend))
    /\ UNCHANGED <<backend, clock, pc, today, writes, resp>>

\* ---------------------------------------------------------------- text
\* str.lower() and SQL LOWER() on the characters used here
LowerChar(ch) ==
    CASE ch = "A" -> "a" [] ch = "B" -> "b" [] ch = "I" -> "i"
      [] ch = "L" -> "l" [] ch = "O" -> "o" [] OTHER -> ch

Lower(txt) == [k \in 1..Len(txt) |-> LowerChar(txt[k])]

\* f"%{q.lower()}%"
Pattern(txt) == <<"%">> \o Lower(txt) \o <<"%">>

\* s LIKE p: % matches any run of characters, _ any one character.
RECURSIVE Like(_, _)
Like(str, pat) ==
    IF pat = <<>> THEN str = <<>>
    ELSE IF pat[1] = "%"
         THEN \E k \in 0..Len(str) : Like(SubSeq(str, k + 1, Len(str)), Tail(pat))
         ELSE /\ str # <<>>
              /\ (pat[1] = "_" \/ pat[1] = str[1])
              /\ Like(Tail(str), Tail(pat))

\* SQL truth values: "T", "F", and "U" for NULL.
Like3(col, pat) == IF IsNull(col) THEN "U" ELSE IF Like(Lower(Val(col)), pat) THEN "T" ELSE "F"
Or3(a, b) == IF a = "T" \/ b = "T" THEN "T" ELSE IF a = "F" /\ b = "F" THEN "F" ELSE "U"
And3(a, b) == IF a = "F" \/ b = "F" THEN "F" ELSE IF a = "T" /\ b = "T" THEN "T" ELSE "U"
Eq3(col, v) == IF IsNull(col) THEN "U" ELSE IF Val(col) = v THEN "T" ELSE "F"

\* Python truthiness of an Optional[str]: None and "" are falsy.
Truthy(o) == ~IsNull(o) /\ Val(o) # <<>>

\* ---------------------------------------------------------------- query
\* where_clause of fetch_opportunities, evaluated on one row: "T" keeps it
where_clause(row, q, tag, remote) ==
    And3(IF Truthy(q)
         THEN Or3(Like3(row.title, Pattern(Val(q))), Like3(row.organizer, Pattern(Val(q))))
         ELSE "T",
         And3(IF Truthy(tag) THEN Like3(row.topic_tags, Pattern(Val(tag))) ELSE "T",
              IF ~IsNull(remote) THEN Eq3(row.is_remote, Val(remote)) ELSE "T"))

\* ORDER BY CASE WHEN cfp_deadline IS NULL THEN 1 ELSE 0 END,
\*          cfp_deadline ASC, last_seen DESC
\* Before(a, b): a sorts strictly before b.  Rows of one CASE value have
\* both a deadline or both none.
NullsLast(row) == IF IsNull(row.cfp_deadline) THEN 1 ELSE 0

\* Mutant: last_seen ASC instead of DESC.
BeforeOldestFirst(a, b) ==
    \/ NullsLast(a) < NullsLast(b)
    \/ /\ NullsLast(a) = NullsLast(b)
       /\ \/ /\ ~IsNull(a.cfp_deadline)
             /\ Val(a.cfp_deadline) < Val(b.cfp_deadline)
          \/ /\ a.cfp_deadline = b.cfp_deadline
             /\ Val(a.last_seen) < Val(b.last_seen)

Before(a, b) ==
    \/ NullsLast(a) < NullsLast(b)
    \/ /\ NullsLast(a) = NullsLast(b)
       /\ \/ /\ ~IsNull(a.cfp_deadline)
             /\ Val(a.cfp_deadline) < Val(b.cfp_deadline)
          \/ /\ a.cfp_deadline = b.cfp_deadline
             /\ Val(a.last_seen) > Val(b.last_seen)

\* The sort: each row is placed behind the rows it does not sort before.
RECURSIVE InsertRow(_, _)
InsertRow(sorted, row) ==
    IF sorted = <<>> THEN <<row>>
    ELSE IF Before(row, sorted[1]) THEN <<row>> \o sorted
         ELSE <<sorted[1]>> \o InsertRow(Tail(sorted), row)

RECURSIVE OrderBy(_)
OrderBy(rows) ==
    IF rows = <<>> THEN <<>>
    ELSE InsertRow(OrderBy(SubSeq(rows, 1, Len(rows) - 1)), rows[Len(rows)])

RECURSIVE Filter(_, _, _, _)
Filter(rows, q, tag, remote) ==
    IF rows = <<>> THEN <<>>
    ELSE (IF where_clause(rows[1], q, tag, remote) = "T" THEN <<rows[1]>> ELSE <<>>)
             \o Filter(Tail(rows), q, tag, remote)

\* LIMIT :limit.  A negative limit is an error in PostgreSQL and means "no
\* limit" in SQLite; LIMIT 0 returns no row in both.
LimitOk(b, limit) == b = "sqlite" \/ limit >= 0

Limit(b, rows, limit) ==
    IF limit < 0 \/ limit >= Len(rows) THEN rows ELSE SubSeq(rows, 1, limit)

\* Mutant: the limit cuts the scan before the rows are ordered.
fetch_opportunities_limit_first(b, scanned, q, tag, remote, limit) ==
    OrderBy(Limit(b, Filter(scanned, q, tag, remote), limit))

\* The SELECT of fetch_opportunities over the rows as the scan delivers them.
fetch_opportunities(b, scanned, q, tag, remote, limit) ==
    Limit(b, OrderBy(Filter(scanned, q, tag, remote)), limit)

\* The orders in which a scan may deliver the rows of table t.
ScanOrders(t) ==
    {s \in [1..Cardinality(t) -> t] : \A i, j \in 1..Cardinality(t) : s[i] = s[j] => i = j}

QStrings == {Null, Some(<<>>), Some(<<"B">>), Some(<<"_">>)}
TagStrings == {Null, Some(<<"I">>)}
RemoteValues == {Null, Some(TRUE), Some(FALSE)}
Limits == (0 - 1)..MaxLimit

\* GET /api/opportunities: api_opportunities calls fetch_opportunities and
\* answers {"count": len(results), "results": results}; an exception of the
\* database driver is not caught.
api_opportunities(q, tag, remote, limit) ==
    /\ resp = NoResp
    /\ \E scanned \in ScanOrders(db) :
          resp' = IF LimitOk(backend, limit)
                  THEN [kind |-> "ok", q |-> q, tag |-> tag, remote |-> remote,
                        limit |-> limit,
                        results |-> fetch_opportunities(backend, scanned, q, tag, remote, limit),
                        count |-> Len(fetch_opportunities(backend, scanned, q, tag, remote, limit))]
                  ELSE [kind |-> "error", q |-> q, tag |-> tag, remote |-> remote,
                        limit |-> limit]
    /\ UNCHANGED <<backend, clock, db, seq, pc, today, writes, upserted>>

\* The JSONResponse is sent and the request is over.
Respond ==
    /\ resp # NoResp
    /\ resp' = NoResp
    /\ UNCHANGED <<backend, clock, db, seq, pc, today, writes, upserted>>

Ingest(r) ==
    \/ Begin(r)
    \/ \E c \in Pool : Upsert(r, c)
    \/ \E c \in Pool : UpsertFails(r, c)
    \/ LockAbort(r)
    \/ Commit(r)

Next ==
    \/ Tick
    \/ \E r \in Runs : Ingest(r)

\* Concurrent ingestion runs, statement by statement.  A SELECT of
\* fetch_opportunities reads the committed rows db in one statement, so every
\* state of db reached here is a state a concurrent query can observe.
Spec == Init /\ [][Next]_vars

NextQuery ==
    \/ Tick
    \/ Respond
    \/ \E batch \in Batches : main(batch)
    \/ \E q \in QStrings, tag \in TagStrings, remote \in RemoteValues, limit \in Limits :
          api_opportunities(q, tag, remote, limit)

\* Ingestion runs and requests one after the other, each whole.
SpecQuery == Init /\ [][NextQuery]_vars

\* ================================================================ properties
Urls == {c.url : c \in Pool}
RowsWithUrl(t, u) == {row \in t : row.url = u}
Elems(sq) == {sq[k] : k \in 1..Len(sq)}

\* The columns of a row other than id, as a parameter dict.
Params(row) ==
    [title |-> row.title, organizer |-> row.organizer, url |-> row.url,
     location |-> row.location, is_remote |-> row.is_remote,
     topic_tags |-> row.topic_tags, cfp_deadline |-> row.cfp_deadline,
     event_date |-> row.event_date, source |-> row.source,
     last_seen |-> row.last_seen]

\* C1: the store never holds two records with the same url, neither among
\* the committed rows nor in what an open run sees of its own writes, and it
\* holds exactly one record for every url whose upsert has succeeded.
C1_UniqueUrl ==
    /\ \A u \in Urls : Cardinality(RowsWithUrl(db, u)) <= 1
    /\ \A u \in upserted : Cardinality(RowsWithUrl(db, u)) = 1
    /\ \A r \in Runs : \A u \in Urls :
          /\ Cardinality(RowsWithUrl(TxView(r), u)) <= 1
          /\ u \in WrittenUrls(r) => Cardinality(RowsWithUrl(TxView(r), u)) = 1

\* A url committed earlier is upserted again, with other field values, by a
\* run that began before the committed row was last written.
C1_Witness ==
    \E r \in Runs : \E row \in db : \E k \in 1..Len(writes[r]) :
        /\ row.url \in upserted
        /\ writes[r][k][1].url = row.url
        /\ writes[r][k][1].title # row.title
        /\ Cardinality(db) >= 2

\* C2: every record has an id, no two records share one, and a record keeps
\* its id through every step.
C2_IdStable ==
    [][ /\ \A row \in db' : ~IsNull(row.id)
        /\ \A a, b \in db' : a # b => a.id # b.id
        /\ \A row \in db : \E a \in db' : a.url = row.url /\ a.id = row.id ]_vars

\* C3: right after an upsert statement with parameters p the record for
\* p.url holds p's value in every column but id, NULLs included, and every
\* record with another url is as it was.
C3_LastWriteWins ==
    [][ \A r \in Runs :
          Len(writes'[r]) = Len(writes[r]) + 1 =>
            LET p == writes'[r][Len(writes'[r])][1]
                before == ApplyWrites(db, writes[r])
                after == ApplyWrites(db', writes'[r])
            IN /\ \E row \in after : row.url = p.url
               /\ \A row \in after : row.url = p.url => Params(row) = p
               /\ {row \in after : row.url # p.url} = {row \in before : row.url # p.url}
      ]_vars

\* The record of an existing url had an organizer and a run has upserted the
\* url with a NULL organizer: the run sees NULL.
C3_Witness ==
    \E r \in Runs : \E old \in db : \E new \in TxView(r) :
        /\ old.url \in WrittenUrls(r)
        /\ new.url = old.url
        /\ ~IsNull(old.organizer)
        /\ IsNull(new.organizer)
        /\ new.title # old.title

\* C4: no record with an empty or absent title or url is ever stored.
C4_InvalidRejected ==
    \A row \in db :
        /\ ~IsNull(row.title) /\ Val(row.title) # <<>>
        /\ ~IsNull(row.url) /\ Val(row.url) # <<>>

\* C5: in every query result, of two adjacent records a and b either a has a
\* deadline and b has none, or both have one and a's is earlier, or the
\* deadlines are equal (both none included) and a.last_seen >= b.last_seen;
\* and no record with a deadline follows one without.
AdjacentOk(a, b) ==
    \/ ~IsNull(a.cfp_deadline) /\ IsNull(b.cfp_deadline)
    \/ /\ ~IsNull(a.cfp_deadline) /\ ~IsNull(b.cfp_deadline)
       /\ Val(a.cfp_deadline) < Val(b.cfp_deadline)
    \/ /\ a.cfp_deadline = b.cfp_deadline
       /\ Val(a.last_seen) >= Val(b.last_seen)

C5_Ordered ==
    resp.kind = "ok" =>
        /\ \A k \in 1..(Len(resp.results) - 1) :
              AdjacentOk(resp.results[k], resp.results[k + 1])
        /\ \A i, j \in 1..Len(resp.results) :
              (i < j /\ IsNull(resp.results[i].cfp_deadline))
                  => IsNull(resp.results[j].cfp_deadline)

\* A result of three records: one with a deadline, then two without whose
\* last_seen differ.
C5_Witness ==
    /\ resp.kind = "ok"
    /\ Len(resp.results) = 3
    /\ ~IsNull(resp.results[1].cfp_deadline)
    /\ IsNull(resp.results[2].cfp_deadline)
    /\ IsNull(resp.results[3].cfp_deadline)
    /\ resp.results[2].last_seen # resp.results[3].last_seen

\* C6: with a limit of at least the store size, a record is in the result
\* if and only if (textQuery absent or its lower-cased text is a literal
\* substring of the lower-cased title or organizer) and (tag absent or its
\* lower-cased text is a literal substring of the lower-cased topicTags) and
\* (remote absent or isRemote equals it); and every stored record matches
\* exactly one of remote=true and remote=false.
IsSubstring(needle, hay) ==
    \E k \in 0..(Len(hay) - Len(needle)) :
        SubSeq(hay, k + 1, k + Len(needle)) = needle

Contains(col, txt) == ~IsNull(col) /\ IsSubstring(Lower(txt), Lower(Val(col)))

Matches(row, q, tag, remote) ==
    /\ IsNull(q) \/ Contains(row.title, Val(q)) \/ Contains(row.organizer, Val(q))
    /\ IsNull(tag) \/ Contains(row.topic_tags, Val(tag))
    /\ IsNull(remote) \/ row.is_remote = remote

C6_FilterExact ==
    /\ (resp.kind = "ok" /\ resp.limit >= Cardinality(db)) =>
          Elems(resp.results) =
              {row \in db : Matches(row, resp.q, resp.tag, resp.remote)}
    /\ \A row \in db :
          (where_clause(row, Null, Null, Some(TRUE)) = "T")
              # (where_clause(row, Null, Null, Some(FALSE)) = "T")

\* C7: a query with limit <= 0 is answered with an error, never with a
\* result set.
C7_NonPositiveLimitFails ==
    (resp # NoResp /\ resp.limit <= 0) => resp.kind = "error"

\* C8: for a positive limit L and n records matching the filter the result
\* has min(L, n) records, all of them matching and no two the same, none of
\* the matching records left out sorts before a returned one, and count is
\* the number of records in results.
Matching(q, tag, remote) == {row \in db : where_clause(row, q, tag, remote) = "T"}

Min(a, b) == IF a <= b THEN a ELSE b

C8_HardCap ==
    (resp.kind = "ok" /\ resp.limit > 0) =>
        LET m == Matching(resp.q, resp.tag, resp.remote)
            got == Elems(resp.results)
        IN /\ Len(resp.results) = Min(resp.limit, Cardinality(m))
           /\ Cardinality(got) = Len(resp.results)
           /\ got \subseteq m
           /\ \A out \in m \ got : \A in \in got : ~Before(out, in)
           /\ resp.count = Len(resp.results)

\* limit=1 on a store of three matching records with different ranks.
C8_Witness ==
    /\ resp.kind = "ok"
    /\ resp.limit = 1
    /\ Cardinality(Matching(resp.q, resp.tag, resp.remote)) = 3
    /\ Len(resp.results) = 1
    /\ \E out \in db : Before(resp.results[1], out)

\* C9: no step leaves a record with an earlier last_seen than it had.
C9_LastSeenMonotone ==
    [][ \A row \in db : \A a \in db' :
          a.url = row.url => Val(a.last_seen) >= Val(row.last_seen) ]_vars

\* C10: every committed record, which is what a concurrent query reads, has
\* all its columns but id from one candidate of one run, and is the only
\* record of its url.
C10_AtomicUpsert ==
    \A row \in db :
        /\ \E c \in Pool : \E day \in 1..MaxDate : Params(row) = Bind(c, day)
        /\ RowsWithUrl(db, row.url) = {row}

\* Two runs overlap on one url: a run that began on an earlier day has
\* upserted, with other values, the url of a record that another run
\* committed on a later day.
C10_Witness ==
    \E r \in Runs : \E row \in db : \E k \in 1..Len(writes[r]) :
        /\ writes[r][k][1].url = row.url
        /\ writes[r][k][1].organizer # row.organizer
        /\ today[r] < Val(row.last_seen)

====
